---- MODULE Spec2Model ----
(***************************************************************************)
(* State-machine model of the custom memory allocator (custom_malloc,      *)
(* custom_free, custom_calloc, custom_realloc over an mmap-backed,         *)
(* doubly-linked list of in-band block headers).                           *)
(*                                                                         *)
(* Block headers live IN the managed memory, so the model keeps one flat   *)
(* memory of 8-byte words and reads/writes header fields at their struct   *)
(* offsets.  Stale headers, headers that overlap after size arithmetic     *)
(* wraps, and pointers into freed space therefore behave as in the C code. *)
(* size_t and pointers are WordBits wide (a scaled-down 64-bit machine);   *)
(* every size_t / pointer computation is reduced modulo 2^WordBits.        *)
(***************************************************************************)
EXTENDS Integers, Sequences, FiniteSets, TLC

VARIABLES
    mem,                  \* the process memory: [w, pg, fault]
    heap_base,            \* block_ptr heap_base
    current_policy,       \* allocation_policy_t current_policy
    is_inside_allocator,  \* static __thread bool is_inside_allocator
    held,                 \* user pointers the client currently holds
    call,                 \* the public call just completed: [op, a, b, ret, path]
    ncalls,               \* how many public calls the client has made
    log_fd,               \* static int log_fd
    log_out               \* the log file: the byte count of each write to it

vars == <<mem, heap_base, current_policy, is_inside_allocator, held, call, ncalls,
          log_fd, log_out>>

(***************************************************************************)
(* Bounds of the model.                                                    *)
(***************************************************************************)
\* width of size_t and of pointers, in bits
WordBits == 16
\* pages 1..NPages are what the kernel hands out to the general clients
NPages == 2
\* pages 1..AddressPages are the address space anonymous mmap can place a
\* mapping in
AddressPages == 3
\* a call is taken only if it leaves at most MaxBlocks blocks on the list
MaxBlocks == 4
\* the client makes at most MaxCalls public calls
MaxCalls == 6

(***************************************************************************)
(* Program constants.                                                      *)
(***************************************************************************)
ALIGNMENT == 8
\* sizeof(struct s_block): size_t, two pointers, bool, tail padding (LP64)
SizeofBlock == 32
\* offsetof(struct s_block, size / next / prev / is_free)
OFF_SIZE == 0
OFF_NEXT == 8
OFF_PREV == 16
OFF_FREE == 24
\* granularity of the mappings mmap returns
PAGE_SIZE == 4096
NULL == 0
FIRST_FIT == 0
BEST_FIT == 1
WORST_FIT == 2

SIZE_MOD == 2 ^ WordBits
SIZE_MAX == SIZE_MOD - 1
\* MAP_FAILED is (void*)-1
MAP_FAILED == SIZE_MAX

\* size_t / pointer arithmetic: the result modulo 2^WordBits
Wrap(x) == x % SIZE_MOD

\* #define ALIGN(size) (((size) + (ALIGNMENT - 1)) & ~(ALIGNMENT - 1))
ALIGN(size) ==
    LET t == Wrap(size + (ALIGNMENT - 1))
    IN  t - (t % ALIGNMENT)

\* #define BLOCK_META_SIZE ALIGN(sizeof(struct s_block))
BLOCK_META_SIZE == ALIGN(SizeofBlock)

(***************************************************************************)
(* Memory.  w holds the non-zero words (anonymous mappings are zero        *)
(* filled), pg the mapped pages, fault whether the running call made an    *)
(* access the machine does not define: an address outside every mapping    *)
(* (SIGSEGV), a header that is not word-aligned, or a bool holding a byte  *)
(* other than 0 or 1.                                                      *)
(***************************************************************************)
Mapped(M, a) == (a % ALIGNMENT = 0) /\ ((a \div PAGE_SIZE) \in M.pg)

Rd(M, a) == IF a \in DOMAIN M.w THEN M.w[a] ELSE 0

Fault(M) == [M EXCEPT !.fault = TRUE]

Wr(M, a, v) ==
    IF M.fault \/ ~Mapped(M, a) THEN Fault(M)
    ELSE [M EXCEPT !.w =
            IF v = 0
            THEN [x \in (DOMAIN M.w) \ {a} |-> M.w[x]]
            ELSE [x \in (DOMAIN M.w) \cup {a} |-> IF x = a THEN v ELSE M.w[x]]]

\* the header at b can be read: all four fields mapped, the bool canonical
HdrOk(M, b) ==
    /\ Mapped(M, b)
    /\ Mapped(M, Wrap(b + OFF_FREE))
    /\ (Rd(M, Wrap(b + OFF_FREE)) % 256) \in {0, 1}

\* a call that dereferences the header at b
Touch(M, b) == IF HdrOk(M, b) THEN M ELSE Fault(M)

\* field reads: block->size, block->next, block->prev, block->is_free
SizeOf(M, b) == Rd(M, Wrap(b + OFF_SIZE))
NextOf(M, b) == Rd(M, Wrap(b + OFF_NEXT))
PrevOf(M, b) == Rd(M, Wrap(b + OFF_PREV))
IsFree(M, b) == (Rd(M, Wrap(b + OFF_FREE)) % 256) # 0

\* field writes; is_free is one byte: the other bytes of its word are kept
SetSize(M, b, v) == Wr(M, Wrap(b + OFF_SIZE), v)
SetNext(M, b, v) == Wr(M, Wrap(b + OFF_NEXT), v)
SetPrev(M, b, v) == Wr(M, Wrap(b + OFF_PREV), v)
SetFree(M, b, f) ==
    LET a   == Wrap(b + OFF_FREE)
        old == Rd(M, a)
    IN  Wr(M, a, (old - (old % 256)) + (IF f THEN 1 ELSE 0))

(***************************************************************************)
(* The block list: the next-chain from a block.  Fuel bounds the walk: an  *)
(* acyclic chain has at most one block more than there are non-zero words. *)
(***************************************************************************)
RECURSIVE Walk(_, _, _)
Walk(M, b, fuel) ==
    IF b = NULL THEN << >>
    ELSE IF fuel = 0 \/ ~HdrOk(M, b) THEN << b >>
    ELSE << b >> \o Walk(M, NextOf(M, b), fuel - 1)

Fuel(M) == Cardinality(DOMAIN M.w) + 1

Chain(M, base) == Walk(M, base, Fuel(M))

\* the walk from base ends at NULL over readable headers without repeating
ChainOk(M, base) ==
    LET c == Chain(M, base)
    IN  /\ \A i \in 1..Len(c) : HdrOk(M, c[i])
        /\ \A i, j \in 1..Len(c) : i # j => c[i] # c[j]
        /\ (Len(c) > 0 => NextOf(M, c[Len(c)]) = NULL)

Blocks(M, base) == { Chain(M, base)[i] : i \in 1..Len(Chain(M, base)) }

(***************************************************************************)
(* heap.c                                                                  *)
(***************************************************************************)

\* The loop of find_free_block.  st = [current, last, best_fit_block,
\* worst_fit_block, min_diff, max_size]; the result is [block, last, M]
\* where M is faulted when the loop read a bad header or never ended.
RECURSIVE FindLoop(_, _, _, _, _)
FindLoop(M, policy, size, st, fuel) ==
    LET current == st.current IN
    IF current = NULL
    THEN [block |-> IF policy = BEST_FIT THEN st.best_fit_block
                    ELSE IF policy = WORST_FIT THEN st.worst_fit_block
                    ELSE NULL,
          last  |-> st.last,
          M     |-> M]
    ELSE IF fuel = 0 \/ ~HdrOk(M, current)
    THEN [block |-> NULL, last |-> current, M |-> Fault(M)]
    ELSE
      LET s1   == [st EXCEPT !.last = current]
          csz  == SizeOf(M, current)
          fits == IsFree(M, current) /\ csz >= size
          nxt  == NextOf(M, current)
      IN  IF fits /\ policy = FIRST_FIT
          THEN [block |-> current, last |-> current, M |-> M]
          ELSE IF fits /\ policy = BEST_FIT /\ csz = size
          THEN [block |-> current, last |-> current, M |-> M]
          ELSE IF fits /\ policy = BEST_FIT /\ Wrap(csz - size) < st.min_diff
          THEN FindLoop(M, policy, size,
                        [s1 EXCEPT !.min_diff = Wrap(csz - size),
                                   !.best_fit_block = current,
                                   !.current = nxt], fuel - 1)
          ELSE IF fits /\ policy = WORST_FIT /\ csz > st.max_size
          THEN FindLoop(M, policy, size,
                        [s1 EXCEPT !.max_size = csz,
                                   !.worst_fit_block = current,
                                   !.current = nxt], fuel - 1)
          ELSE FindLoop(M, policy, size, [s1 EXCEPT !.current = nxt], fuel - 1)

\* find_free_block as it would be if it searched first-fit under every policy
find_free_block_AlwaysFirst(M, base, policy, last, size) ==
    FindLoop(M, FIRST_FIT, size,
             [current |-> base, last |-> last,
              best_fit_block |-> NULL, worst_fit_block |-> NULL,
              min_diff |-> SIZE_MAX, max_size |-> 0],
             Fuel(M))

\* find_free_block as it would be if it searched best-fit under every policy
find_free_block_AlwaysBest(M, base, policy, last, size) ==
    FindLoop(M, BEST_FIT, size,
             [current |-> base, last |-> last,
              best_fit_block |-> NULL, worst_fit_block |-> NULL,
              min_diff |-> SIZE_MAX, max_size |-> 0],
             Fuel(M))

\* find_free_block as it would be without the store *last = current
find_free_block_KeepsLast(M, base, policy, last, size) ==
    LET unrecorded(f) == [f EXCEPT !.last = last]
    IN  unrecorded(FindLoop(M, policy, size,
                            [current |-> base, last |-> last,
                             best_fit_block |-> NULL, worst_fit_block |-> NULL,
                             min_diff |-> SIZE_MAX, max_size |-> 0],
                            Fuel(M)))

\* find_free_block as it would be if no case of its switch matched the policy
find_free_block_NoPolicy(M, base, policy, last, size) ==
    FindLoop(M, WORST_FIT + 1, size,
             [current |-> base, last |-> last,
              best_fit_block |-> NULL, worst_fit_block |-> NULL,
              min_diff |-> SIZE_MAX, max_size |-> 0],
             Fuel(M))

\* block_ptr find_free_block(block_ptr* last, size_t size)
find_free_block(M, base, policy, last, size) ==
    FindLoop(M, policy, size,
             [current |-> base, last |-> last,
              best_fit_block |-> NULL, worst_fit_block |-> NULL,
              min_diff |-> SIZE_MAX, max_size |-> 0],
             Fuel(M))

\* pages a mapping of total_size bytes starting at page r occupies
PagesFor(r, total_size) ==
    r .. (r + ((total_size + PAGE_SIZE - 1) \div PAGE_SIZE) - 1)

\* mmap(NULL, total_size, PROT_READ | PROT_WRITE, MAP_PRIVATE | MAP_ANONYMOUS, -1, 0)
\* r is the kernel's choice: 0 refuses, k > 0 places the mapping at page k.
\* A length of 0 is refused (EINVAL); so is a range that is not free.
mmap(M, total_size, r) ==
    IF r = 0 \/ total_size = 0
       \/ ~(PagesFor(r, total_size) \subseteq ((1..AddressPages) \ M.pg))
    THEN MAP_FAILED
    ELSE r * PAGE_SIZE

\* extend_heap as it would be if it linked the new block before testing MAP_FAILED
extend_heap_LinksFirst(M, last, size, r) ==
    LET total_size == Wrap(BLOCK_META_SIZE + size)
        mapped(new_block) ==
          LET s0(m) == [m EXCEPT !.pg = m.pg \cup PagesFor(r, total_size)]
              s1(m) == SetSize(m, new_block, size)
              s2(m) == SetFree(m, new_block, FALSE)
              s3(m) == SetNext(m, new_block, NULL)
              s4(m) == SetPrev(m, new_block, last)
              s5(m) == IF last # NULL THEN SetNext(m, last, new_block) ELSE m
          IN  IF new_block = MAP_FAILED
              THEN [M |-> s5(M), block |-> NULL]
              ELSE [M |-> s5(s4(s3(s2(s1(s0(M)))))), block |-> new_block]
    IN  mapped(mmap(M, total_size, r))

\* block_ptr extend_heap(block_ptr last, size_t size): [M, block]
\* written statement by statement: each s_i is one store of the function
extend_heap(M, last, size, r) ==
    LET total_size == Wrap(BLOCK_META_SIZE + size)
        mapped(new_block) ==
          LET s0(m) == [m EXCEPT !.pg = m.pg \cup PagesFor(r, total_size)]
              s1(m) == SetSize(m, new_block, size)
              s2(m) == SetFree(m, new_block, FALSE)
              s3(m) == SetNext(m, new_block, NULL)
              s4(m) == SetPrev(m, new_block, last)
              s5(m) == IF last # NULL THEN SetNext(m, last, new_block) ELSE m
          IN  IF new_block = MAP_FAILED
              THEN [M |-> M, block |-> NULL]
              ELSE [M |-> s5(s4(s3(s2(s1(s0(M)))))), block |-> new_block]
    IN  mapped(mmap(M, total_size, r))

\* split_block as it would be if it asked no room for the fragment's payload
split_block_NoMinimum(M, block, size) ==
    LET new_fragment == Wrap(block + BLOCK_META_SIZE + size)
        s1(m) == SetSize(m, new_fragment,
                         Wrap(SizeOf(m, block) - size - BLOCK_META_SIZE))
        s2(m) == SetFree(m, new_fragment, TRUE)
        s3(m) == SetNext(m, new_fragment, NextOf(m, block))
        s4(m) == SetPrev(m, new_fragment, block)
        s5(m) == IF NextOf(m, block) # NULL
                 THEN SetPrev(m, NextOf(m, block), new_fragment)
                 ELSE m
        s6(m) == SetSize(m, block, size)
        s7(m) == SetNext(m, block, new_fragment)
    IN  IF ~Mapped(M, block) THEN Fault(M)
        ELSE IF SizeOf(M, block) >= Wrap(size + BLOCK_META_SIZE)
        THEN s7(s6(s5(s4(s3(s2(s1(M)))))))
        ELSE M

\* void split_block(block_ptr block, size_t size)
split_block(M, block, size) ==
    LET new_fragment == Wrap(block + BLOCK_META_SIZE + size)
        s1(m) == SetSize(m, new_fragment,
                         Wrap(SizeOf(m, block) - size - BLOCK_META_SIZE))
        s2(m) == SetFree(m, new_fragment, TRUE)
        s3(m) == SetNext(m, new_fragment, NextOf(m, block))
        s4(m) == SetPrev(m, new_fragment, block)
        s5(m) == IF NextOf(m, block) # NULL
                 THEN SetPrev(m, NextOf(m, block), new_fragment)
                 ELSE m
        s6(m) == SetSize(m, block, size)
        s7(m) == SetNext(m, block, new_fragment)
    IN  IF ~Mapped(M, block) THEN Fault(M)
        ELSE IF SizeOf(M, block) >= Wrap(size + BLOCK_META_SIZE + ALIGNMENT)
        THEN s7(s6(s5(s4(s3(s2(s1(M)))))))
        ELSE M

\* the first half of coalesce_blocks: fuse block into a free, contiguous prev;
\* block->prev is read again by every statement, as the code does
CoalescePrev(M, block) ==
    LET prev == PrevOf(M, block)
        s1(m) == SetSize(m, PrevOf(m, block),
                         Wrap(SizeOf(m, PrevOf(m, block)) + BLOCK_META_SIZE
                              + SizeOf(m, block)))
        s2(m) == SetNext(m, PrevOf(m, block), NextOf(m, block))
        s3(m) == IF NextOf(m, block) # NULL
                 THEN SetPrev(m, NextOf(m, block), PrevOf(m, block))
                 ELSE m
        s4(m) == [M |-> m, block |-> PrevOf(m, block)]
    IN  IF prev = NULL THEN [M |-> M, block |-> block]
        ELSE IF ~HdrOk(M, prev) THEN [M |-> Fault(M), block |-> block]
        ELSE IF IsFree(M, prev)
                /\ Wrap(prev + BLOCK_META_SIZE + SizeOf(M, prev)) = block
        THEN s4(s3(s2(s1(M))))
        ELSE [M |-> M, block |-> block]

\* coalesce_blocks' second half as it would be without the contiguity test
CoalesceNext_AnyFreeNeighbour(M, block) ==
    LET next == NextOf(M, block)
        s1(m) == SetSize(m, block,
                         Wrap(SizeOf(m, block) + BLOCK_META_SIZE
                              + SizeOf(m, NextOf(m, block))))
        s2(m) == SetNext(m, block, NextOf(m, NextOf(m, block)))
        s3(m) == IF NextOf(m, block) # NULL
                 THEN SetPrev(m, NextOf(m, block), block)
                 ELSE m
    IN  IF next = NULL THEN [M |-> M, block |-> block]
        ELSE IF ~HdrOk(M, next) THEN [M |-> Fault(M), block |-> block]
        ELSE IF IsFree(M, next)
        THEN [M |-> s3(s2(s1(M))), block |-> block]
        ELSE [M |-> M, block |-> block]

\* the second half of coalesce_blocks: fuse a free, contiguous next into block
CoalesceNext(M, block) ==
    LET next == NextOf(M, block)
        s1(m) == SetSize(m, block,
                         Wrap(SizeOf(m, block) + BLOCK_META_SIZE
                              + SizeOf(m, NextOf(m, block))))
        s2(m) == SetNext(m, block, NextOf(m, NextOf(m, block)))
        s3(m) == IF NextOf(m, block) # NULL
                 THEN SetPrev(m, NextOf(m, block), block)
                 ELSE m
    IN  IF next = NULL THEN [M |-> M, block |-> block]
        ELSE IF ~HdrOk(M, next) THEN [M |-> Fault(M), block |-> block]
        ELSE IF IsFree(M, next)
                /\ Wrap(block + BLOCK_META_SIZE + SizeOf(M, block)) = next
        THEN [M |-> s3(s2(s1(M))), block |-> block]
        ELSE [M |-> M, block |-> block]

\* block_ptr coalesce_blocks(block_ptr block): [M, block]
coalesce_blocks(M, block) ==
    LET second(a) == CoalesceNext(a.M, a.block)
    IN  second(CoalescePrev(IF Mapped(M, block) THEN M ELSE Fault(M), block))

\* block_ptr get_block_from_ptr(void* p)
get_block_from_ptr(p) == Wrap(p - BLOCK_META_SIZE)

\* The loop of is_valid_address as it would be if it did not test is_free
RECURSIVE ValidLoop_AnyBlock(_, _, _, _)
ValidLoop_AnyBlock(M, current, p, fuel) ==
    IF current = NULL THEN [valid |-> FALSE, M |-> M]
    ELSE IF fuel = 0 \/ ~HdrOk(M, current) THEN [valid |-> FALSE, M |-> Fault(M)]
    ELSE IF Wrap(current + BLOCK_META_SIZE) = p
    THEN [valid |-> TRUE, M |-> M]
    ELSE ValidLoop_AnyBlock(M, NextOf(M, current), p, fuel - 1)

\* The loop of is_valid_address: [valid, M]
RECURSIVE ValidLoop(_, _, _, _)
ValidLoop(M, current, p, fuel) ==
    IF current = NULL THEN [valid |-> FALSE, M |-> M]
    ELSE IF fuel = 0 \/ ~HdrOk(M, current) THEN [valid |-> FALSE, M |-> Fault(M)]
    ELSE IF ~IsFree(M, current) /\ Wrap(current + BLOCK_META_SIZE) = p
    THEN [valid |-> TRUE, M |-> M]
    ELSE ValidLoop(M, NextOf(M, current), p, fuel - 1)

\* is_valid_address as it would be if it accepted every non-null pointer
is_valid_address_AnyPointer(M, base, p) ==
    [valid |-> p # NULL /\ base # NULL, M |-> M]

\* bool is_valid_address(void* p): [valid, M]
is_valid_address(M, base, p) ==
    IF p = NULL \/ base = NULL
    THEN [valid |-> FALSE, M |-> M]
    ELSE ValidLoop(M, base, p, Fuel(M))

\* reset_heap_for_testing as it would be if it kept the list
reset_heap_for_testing_KeepsList == heap_base

\* void reset_heap_for_testing(void): the new heap_base
reset_heap_for_testing == NULL

(***************************************************************************)
(* log.c                                                                   *)
(***************************************************************************)
\* char buffer[256]
LOG_BUFFER_SIZE == 256

\* int vsnprintf(char* s, size_t n, const char* format, va_list): the
\* formatted message has L bytes, or L == -1 for an output error.  It stores
\* at most n - 1 bytes of the message and a terminating null, and returns the
\* length the whole message has.
vsnprintf(n, L) ==
    [ret    |-> L,
     stored |-> IF L < 0 \/ n = 0 THEN {}
                ELSE 0 .. (IF L < n - 1 THEN L ELSE n - 1)]

\* void log_event(const char* format, ...): the indices of buffer it stores
\* at, whether it calls write, and the byte count it passes to write
log_event(fd, L) ==
    LET formatted(v) ==
          LET len == v.ret
          IN  IF len > 0
              THEN [stores |-> v.stored \cup {len, len + 1},
                    wrote |-> TRUE, count |-> len + 1]
              ELSE [stores |-> v.stored, wrote |-> FALSE, count |-> 0]
    IN  IF fd = -1 THEN [stores |-> {}, wrote |-> FALSE, count |-> 0]
        ELSE formatted(vsnprintf(LOG_BUFFER_SIZE - 2, L))

\* void close_memory_log(void): the new log_fd
close_memory_log(fd) == -1

\* void init_memory_log(const char* filename): the new log_fd; opened is the
\* result of open(), a descriptor or -1
init_memory_log(fd, filename, opened) ==
    IF filename # NULL THEN opened ELSE close_memory_log(fd)

\* The loop of memory_usage_stats.  st = [total_allocated, total_free,
\* allocated_blocks, free_blocks]; the result is st with the memory
RECURSIVE StatsLoop(_, _, _, _)
StatsLoop(M, current, st, fuel) ==
    IF current = NULL THEN [st EXCEPT !.M = M]
    ELSE IF fuel = 0 \/ ~HdrOk(M, current) THEN [st EXCEPT !.M = Fault(M)]
    ELSE IF IsFree(M, current)
    THEN StatsLoop(M, NextOf(M, current),
                   [st EXCEPT !.total_free = Wrap(@ + SizeOf(M, current)),
                              !.free_blocks = @ + 1],
                   fuel - 1)
    ELSE StatsLoop(M, NextOf(M, current),
                   [st EXCEPT !.total_allocated = Wrap(@ + SizeOf(M, current)),
                              !.allocated_blocks = @ + 1],
                   fuel - 1)

\* memory_usage_stats as it would be if it marked the blocks it counts as free
memory_usage_stats_MarksFree(M, base) ==
    [StatsLoop(M, base,
               [total_allocated |-> 0, total_free |-> 0,
                allocated_blocks |-> 0, free_blocks |-> 0, M |-> M],
               Fuel(M))
     EXCEPT !.M = IF base = NULL THEN M ELSE SetFree(M, base, TRUE)]

\* void memory_usage_stats(size_t*, size_t*, int*, int*): the four results
memory_usage_stats(M, base) ==
    StatsLoop(M, base,
              [total_allocated |-> 0, total_free |-> 0,
               allocated_blocks |-> 0, free_blocks |-> 0, M |-> M],
              Fuel(M))

\* The loop of get_fragmentation_rate.
\* st = [total_free_mem, largest_free_block, M]
RECURSIVE FragLoop(_, _, _, _)
FragLoop(M, current, st, fuel) ==
    IF current = NULL THEN [st EXCEPT !.M = M]
    ELSE IF fuel = 0 \/ ~HdrOk(M, current) THEN [st EXCEPT !.M = Fault(M)]
    ELSE IF IsFree(M, current)
    THEN FragLoop(M, NextOf(M, current),
                  [st EXCEPT !.total_free_mem = Wrap(@ + SizeOf(M, current)),
                             !.largest_free_block =
                                IF SizeOf(M, current) > @ THEN SizeOf(M, current) ELSE @],
                  fuel - 1)
    ELSE FragLoop(M, NextOf(M, current), st, fuel - 1)

\* double get_fragmentation_rate(void): the rate as the fraction num / den
\* (1.0 - largest / total = (total - largest) / total), and the memory
get_fragmentation_rate(M, base) ==
    LET rate(st) ==
          IF st.total_free_mem = 0
          THEN [num |-> 0, den |-> 1, M |-> st.M]
          ELSE [num |-> st.total_free_mem - st.largest_free_block,
                den |-> st.total_free_mem, M |-> st.M]
    IN  rate(FragLoop(M, base,
                      [total_free_mem |-> 0, largest_free_block |-> 0, M |-> M],
                      Fuel(M)))

\* The loop of check_heap_consistency: the blocks it reports for a wrong
\* back link (links) and for an uncoalesced contiguous free pair (pairs)
RECURSIVE ConsistLoop(_, _, _, _)
ConsistLoop(M, current, st, fuel) ==
    IF current = NULL THEN [st EXCEPT !.M = M]
    ELSE IF fuel = 0 \/ ~HdrOk(M, current) THEN [st EXCEPT !.M = Fault(M)]
    ELSE IF NextOf(M, current) # NULL /\ ~HdrOk(M, NextOf(M, current))
    THEN [st EXCEPT !.M = Fault(M)]
    ELSE ConsistLoop(M, NextOf(M, current),
           [st EXCEPT
              !.links = IF NextOf(M, current) # NULL
                           /\ PrevOf(M, NextOf(M, current)) # current
                        THEN @ \cup {current} ELSE @,
              !.pairs = IF IsFree(M, current) /\ NextOf(M, current) # NULL
                           /\ IsFree(M, NextOf(M, current))
                           /\ Wrap(current + BLOCK_META_SIZE + SizeOf(M, current))
                                = NextOf(M, current)
                        THEN @ \cup {current} ELSE @],
           fuel - 1)

\* void check_heap_consistency(void): what it reports, and the memory
check_heap_consistency(M, base) ==
    ConsistLoop(M, base, [links |-> {}, pairs |-> {}, M |-> M], Fuel(M))

(***************************************************************************)
(* string.h on the modelled memory                                         *)
(***************************************************************************)
\* the n bytes from a lie in mapped pages
RangeMapped(M, a, n) ==
    \/ n = 0
    \/ /\ a % ALIGNMENT = 0
       /\ a + n <= SIZE_MOD
       /\ \A q \in (a \div PAGE_SIZE) .. ((a + n - 1) \div PAGE_SIZE) : q \in M.pg

\* memset as it would be if it cleared nothing
Memset0_Nothing(M, p, n) == M

\* memset(p, 0, n): whole words are cleared, and the low n % 8 bytes of the
\* word after them (little endian)
Memset0(M, p, n) ==
    IF M.fault \/ ~RangeMapped(M, p, n) THEN Fault(M)
    ELSE
      LET full == n - (n % ALIGNMENT)
          tail == p + full
          keep == { x \in DOMAIN M.w : ~(p <= x /\ x < p + full) }
          cut(v) == v - (v % (256 ^ (n % ALIGNMENT)))
          dom  == { x \in keep : x # tail \/ n % ALIGNMENT = 0 \/ cut(M.w[x]) # 0 }
      IN  [M EXCEPT !.w = [x \in dom |->
                             IF x = tail /\ n % ALIGNMENT # 0
                             THEN cut(M.w[x]) ELSE M.w[x]]]

\* memcpy as it would be if it copied nothing
Memcpy_Nothing(M, dst, src, n) == M

\* memcpy(dst, src, n) for whole words and ranges that do not overlap
Memcpy(M, dst, src, n) ==
    IF M.fault \/ n % ALIGNMENT # 0
       \/ ~RangeMapped(M, dst, n) \/ ~RangeMapped(M, src, n)
       \/ (n > 0 /\ dst < src + n /\ src < dst + n)
    THEN Fault(M)
    ELSE
      LET from == { x \in DOMAIN M.w : src <= x /\ x < src + n }
          keep == { x \in DOMAIN M.w : ~(dst <= x /\ x < dst + n) }
          to   == { (x - src) + dst : x \in from }
      IN  [M EXCEPT !.w = [x \in keep \cup to |->
                             IF x \in to THEN M.w[(x - dst) + src] ELSE M.w[x]]]

(***************************************************************************)
(* allocator.c.  Every operator returns the memory, heap_base, the         *)
(* recursion flag on return, the value returned and the return path taken. *)
(* r is the kernel's answer should the call reach mmap; fb is what the     *)
(* fallback allocator returns should the call be forwarded to it.          *)
(***************************************************************************)
Ret(M, base, inside, ret, path) ==
    [M |-> M, base |-> base, inside |-> inside, ret |-> ret, path |-> path]

\* void* get_original_malloc(size_t size): libc's malloc, outside this heap
get_original_malloc(size, fb) == fb

\* custom_malloc as it would be without the size == 0 test
custom_malloc_NoZeroTest(M, base, policy, inside, size, r, fb) ==
    LET aligned_size == ALIGN(size)
        extended(e, path) ==
          IF e.block = NULL
          THEN Ret(e.M, base, FALSE, NULL, "mmap_failed")
          ELSE Ret(e.M, IF base = NULL THEN e.block ELSE base, FALSE,
                   Wrap(e.block + BLOCK_META_SIZE), path)
        found(f) ==
          IF f.block # NULL
          THEN Ret(SetFree(split_block(f.M, f.block, aligned_size), f.block, FALSE),
                   base, FALSE, Wrap(f.block + BLOCK_META_SIZE), "reuse")
          ELSE extended(extend_heap(f.M, f.last, aligned_size, r), "extend")
    IN
    IF inside THEN Ret(M, base, inside, get_original_malloc(size, fb), "fallback")
    ELSE IF base # NULL
    THEN found(find_free_block(M, base, policy, base, aligned_size))
    ELSE extended(extend_heap(M, NULL, aligned_size, r), "first")

\* custom_malloc as it would be without the recursion guard
custom_malloc_NoGuard(M, base, policy, inside, size, r, fb) ==
    LET aligned_size == ALIGN(size)
        extended(e, path) ==
          IF e.block = NULL
          THEN Ret(e.M, base, FALSE, NULL, "mmap_failed")
          ELSE Ret(e.M, IF base = NULL THEN e.block ELSE base, FALSE,
                   Wrap(e.block + BLOCK_META_SIZE), path)
        found(f) ==
          IF f.block # NULL
          THEN Ret(SetFree(split_block(f.M, f.block, aligned_size), f.block, FALSE),
                   base, FALSE, Wrap(f.block + BLOCK_META_SIZE), "reuse")
          ELSE extended(extend_heap(f.M, f.last, aligned_size, r), "extend")
    IN
    IF size = 0 THEN Ret(M, base, FALSE, NULL, "zero")
    ELSE IF base # NULL
    THEN found(find_free_block(M, base, policy, base, aligned_size))
    ELSE extended(extend_heap(M, NULL, aligned_size, r), "first")

\* void* custom_malloc(size_t size)
custom_malloc(M, base, policy, inside, size, r, fb) ==
    LET aligned_size == ALIGN(size)
        extended(e, path) ==
          IF e.block = NULL
          THEN Ret(e.M, base, FALSE, NULL, "mmap_failed")
          ELSE Ret(e.M, IF base = NULL THEN e.block ELSE base, FALSE,
                   Wrap(e.block + BLOCK_META_SIZE), path)
        found(f) ==
          IF f.block # NULL
          THEN Ret(SetFree(split_block(f.M, f.block, aligned_size), f.block, FALSE),
                   base, FALSE, Wrap(f.block + BLOCK_META_SIZE), "reuse")
          ELSE extended(extend_heap(f.M, f.last, aligned_size, r), "extend")
    IN
    IF inside THEN Ret(M, base, inside, get_original_malloc(size, fb), "fallback")
    ELSE IF size = 0 THEN Ret(M, base, FALSE, NULL, "zero")
    ELSE IF base # NULL
    THEN found(find_free_block(M, base, policy, base, aligned_size))
    ELSE extended(extend_heap(M, NULL, aligned_size, r), "first")

\* custom_free as it would be without is_valid_address
custom_free_Unchecked(M, base, inside, p) ==
    IF inside THEN Ret(M, base, inside, NULL, "nested")
    ELSE IF p = NULL THEN Ret(M, base, FALSE, NULL, "null")
    ELSE Ret(coalesce_blocks(SetFree(M, get_block_from_ptr(p), TRUE),
                             get_block_from_ptr(p)).M,
             base, FALSE, NULL, "freed")

\* custom_free as it would be without the store block->is_free = true
custom_free_KeepsInUse(M, base, inside, p) ==
    LET block == get_block_from_ptr(p)
        checked(v) ==
          IF v.valid
          THEN Ret(coalesce_blocks(v.M, block).M, base, FALSE, NULL, "freed")
          ELSE Ret(v.M, base, FALSE, NULL, "invalid")
    IN
    IF inside THEN Ret(M, base, inside, NULL, "nested")
    ELSE IF p = NULL THEN Ret(M, base, FALSE, NULL, "null")
    ELSE checked(is_valid_address(M, base, p))

\* custom_free as it would be if the exit for an invalid pointer left the
\* flag set
custom_free_InvalidKeepsFlag(M, base, inside, p) ==
    LET block == get_block_from_ptr(p)
        checked(v) ==
          IF v.valid
          THEN Ret(coalesce_blocks(SetFree(v.M, block, TRUE), block).M,
                   base, FALSE, NULL, "freed")
          ELSE Ret(v.M, base, TRUE, NULL, "invalid")
    IN
    IF inside THEN Ret(M, base, inside, NULL, "nested")
    ELSE IF p = NULL THEN Ret(M, base, FALSE, NULL, "null")
    ELSE checked(is_valid_address(M, base, p))

\* void custom_free(void* p)
custom_free(M, base, inside, p) ==
    LET block == get_block_from_ptr(p)
        checked(v) ==
          IF v.valid
          THEN Ret(coalesce_blocks(SetFree(v.M, block, TRUE), block).M,
                   base, FALSE, NULL, "freed")
          ELSE Ret(v.M, base, FALSE, NULL, "invalid")
    IN
    IF inside THEN Ret(M, base, inside, NULL, "nested")
    ELSE IF p = NULL THEN Ret(M, base, FALSE, NULL, "null")
    ELSE checked(is_valid_address(M, base, p))

\* custom_calloc as it would be without the overflow test
custom_calloc_NoOverflowTest(M, base, policy, inside, number, size, r, fb) ==
    LET total_size == Wrap(number * size)
        cleared(m) ==
          IF m.ret # NULL /\ m.path # "fallback"
          THEN [m EXCEPT !.M = Memset0(m.M, m.ret, total_size)]
          ELSE m
    IN  cleared(custom_malloc(M, base, policy, inside, total_size, r, fb))

\* void* custom_calloc(size_t number, size_t size)
custom_calloc(M, base, policy, inside, number, size, r, fb) ==
    LET total_size == Wrap(number * size)
        cleared(m) ==
          IF m.ret # NULL /\ m.path # "fallback"
          THEN [m EXCEPT !.M = Memset0(m.M, m.ret, total_size)]
          ELSE m
    IN
    IF number # 0 /\ (total_size \div number) # size
    THEN Ret(M, base, inside, NULL, "overflow")
    ELSE cleared(custom_malloc(M, base, policy, inside, total_size, r, fb))

\* custom_realloc as it would be without the forward-merge exit
custom_realloc_NoForwardMerge(M, base, policy, inside, p, size, r, fb) ==
    LET block        == get_block_from_ptr(p)
        aligned_size == ALIGN(size)
        freed(f, new_ptr) == Ret(f.M, f.base, f.inside, new_ptr, "moved")
        moved(m) ==
          IF m.ret = NULL THEN [m EXCEPT !.path = "move_failed"]
          ELSE freed(custom_free(IF m.path = "fallback" THEN m.M
                                 ELSE Memcpy(m.M, m.ret, p, SizeOf(m.M, block)),
                                 m.base, m.inside, p),
                     m.ret)
        \* Mn: the memory once block->next->is_free has been read
        grow(Mn) ==
          moved(custom_malloc(Mn, base, policy, inside, aligned_size, r, fb))
        checked(v) ==
          IF ~v.valid THEN Ret(v.M, base, inside, NULL, "invalid")
          ELSE IF SizeOf(v.M, block) >= aligned_size
          THEN Ret(split_block(v.M, block, aligned_size), base, inside, p, "shrink")
          ELSE grow(IF NextOf(v.M, block) # NULL
                    THEN Touch(v.M, NextOf(v.M, block))
                    ELSE v.M)
    IN
    IF p = NULL THEN custom_malloc(M, base, policy, inside, size, r, fb)
    ELSE IF size = 0
    THEN [custom_free(M, base, inside, p) EXCEPT !.ret = NULL]
    ELSE checked(is_valid_address(M, base, p))

\* custom_realloc as it would be without the test for a null p
custom_realloc_NoNullTest(M, base, policy, inside, p, size, r, fb) ==
    LET block        == get_block_from_ptr(p)
        aligned_size == ALIGN(size)
        freed(f, new_ptr) == Ret(f.M, f.base, f.inside, new_ptr, "moved")
        moved(m) ==
          IF m.ret = NULL THEN [m EXCEPT !.path = "move_failed"]
          ELSE freed(custom_free(IF m.path = "fallback" THEN m.M
                                 ELSE Memcpy(m.M, m.ret, p, SizeOf(m.M, block)),
                                 m.base, m.inside, p),
                     m.ret)
        \* Mn: the memory once block->next->is_free has been read
        grow(Mn) ==
          LET next == NextOf(Mn, block) IN
          IF next # NULL /\ IsFree(Mn, next)
             /\ Wrap(SizeOf(Mn, block) + BLOCK_META_SIZE + SizeOf(Mn, next))
                  >= aligned_size
          THEN Ret(split_block(coalesce_blocks(Mn, block).M, block, aligned_size),
                   base, inside, p, "in_place")
          ELSE moved(custom_malloc(Mn, base, policy, inside, aligned_size, r, fb))
        checked(v) ==
          IF ~v.valid THEN Ret(v.M, base, inside, NULL, "invalid")
          ELSE IF SizeOf(v.M, block) >= aligned_size
          THEN Ret(split_block(v.M, block, aligned_size), base, inside, p, "shrink")
          ELSE grow(IF NextOf(v.M, block) # NULL
                    THEN Touch(v.M, NextOf(v.M, block))
                    ELSE v.M)
    IN
    IF size = 0
    THEN [custom_free(M, base, inside, p) EXCEPT !.ret = NULL]
    ELSE checked(is_valid_address(M, base, p))

\* void* custom_realloc(void* p, size_t size)
custom_realloc(M, base, policy, inside, p, size, r, fb) ==
    LET block        == get_block_from_ptr(p)
        aligned_size == ALIGN(size)
        freed(f, new_ptr) == Ret(f.M, f.base, f.inside, new_ptr, "moved")
        moved(m) ==
          IF m.ret = NULL THEN [m EXCEPT !.path = "move_failed"]
          ELSE freed(custom_free(IF m.path = "fallback" THEN m.M
                                 ELSE Memcpy(m.M, m.ret, p, SizeOf(m.M, block)),
                                 m.base, m.inside, p),
                     m.ret)
        \* Mn: the memory once block->next->is_free has been read
        grow(Mn) ==
          LET next == NextOf(Mn, block) IN
          IF next # NULL /\ IsFree(Mn, next)
             /\ Wrap(SizeOf(Mn, block) + BLOCK_META_SIZE + SizeOf(Mn, next))
                  >= aligned_size
          THEN Ret(split_block(coalesce_blocks(Mn, block).M, block, aligned_size),
                   base, inside, p, "in_place")
          ELSE moved(custom_malloc(Mn, base, policy, inside, aligned_size, r, fb))
        checked(v) ==
          IF ~v.valid THEN Ret(v.M, base, inside, NULL, "invalid")
          ELSE IF SizeOf(v.M, block) >= aligned_size
          THEN Ret(split_block(v.M, block, aligned_size), base, inside, p, "shrink")
          ELSE grow(IF NextOf(v.M, block) # NULL
                    THEN Touch(v.M, NextOf(v.M, block))
                    ELSE v.M)
    IN
    IF p = NULL THEN custom_malloc(M, base, policy, inside, size, r, fb)
    ELSE IF size = 0
    THEN [custom_free(M, base, inside, p) EXCEPT !.ret = NULL]
    ELSE checked(is_valid_address(M, base, p))

\* set_allocation_policy as it would be without the range test
set_allocation_policy_Unchecked(policy, cur) == policy

\* void set_allocation_policy(allocation_policy_t policy): the new policy
set_allocation_policy(policy, cur) ==
    IF policy >= FIRST_FIT /\ policy <= WORST_FIT THEN policy ELSE cur

(***************************************************************************)
(* The client and the state machine.                                       *)
(***************************************************************************)
\* request sizes the client uses: zero, unaligned, aligned, and sizes whose
\* split leaves room for one or two more blocks
MallocSizes == {0, 1, 88}
\* realloc: free, shrink to the minimum, grow
ReallocSizes == {0, 1, 41}
\* request sizes at the top of the size_t range
HugeSizes == {SIZE_MAX - 3, SIZE_MAX - 7, SIZE_MAX - 15}
\* (number, size) pairs for calloc: zero products, products that fit,
\* products that do not fit in size_t
CallocArgs ==
    { <<0, 5>>, <<3, 0>>, <<2, 4>>,
      <<2, SIZE_MOD \div 2>>, <<3, (SIZE_MOD \div 3) + 1>>, <<SIZE_MOD \div 4, 4>> }

Mem0 == [w |-> [x \in {} |-> 0], pg |-> {}, fault |-> FALSE]

Call(op, a, b, ret, path) == [op |-> op, a |-> a, b |-> b, ret |-> ret, path |-> path]

Init ==
    /\ mem = Mem0
    /\ heap_base = NULL
    /\ current_policy = FIRST_FIT
    /\ is_inside_allocator = FALSE
    /\ held = {}
    /\ call = Call("init", 0, 0, NULL, "none")
    /\ ncalls = 0
    /\ log_fd = -1
    /\ log_out = << >>

\* the process died in the call (SIGSEGV) or left defined behaviour
Crash ==
    /\ mem' = [Mem0 EXCEPT !.fault = TRUE]
    /\ heap_base' = NULL
    /\ current_policy' = FIRST_FIT
    /\ is_inside_allocator' = FALSE
    /\ held' = {}
    /\ call' = Call("crash", 0, 0, NULL, "none")
    /\ ncalls' = MaxCalls
    /\ UNCHANGED <<log_fd, log_out>>

\* the call returned: its effects and what the client now holds
Return(res, h, c) ==
    IF res.M.fault THEN Crash
    ELSE /\ Len(Chain(res.M, res.base)) <= MaxBlocks
         /\ mem' = res.M
         /\ heap_base' = res.base
         /\ is_inside_allocator' = res.inside
         /\ held' = h
         /\ call' = c
         /\ ncalls' = ncalls + 1
         /\ UNCHANGED <<current_policy, log_fd, log_out>>

\* the kernel's possible answers when it hands out pages 1..n: refuse, or any
\* page still unmapped
KernelOn(M, n) == {0} \cup ((1..n) \ M.pg)

Kernel(M) == KernelOn(M, NPages)

\* malloc by a client the kernel serves from pages 1..n
MallocOn(S, n) ==
    /\ ~mem.fault /\ ncalls < MaxCalls
    /\ \E size \in S, r \in KernelOn(mem, n) :
         LET returned(res) ==
               Return(res,
                      IF res.ret # NULL THEN held \cup {res.ret} ELSE held,
                      Call("malloc", size, 0, res.ret, res.path))
         IN  returned(custom_malloc(mem, heap_base, current_policy,
                                    is_inside_allocator, size, r, NULL))

Malloc(S) == MallocOn(S, NPages)

Free ==
    /\ ~mem.fault /\ ncalls < MaxCalls
    /\ \E p \in held \cup {NULL} :
         LET returned(res) ==
               Return(res, held \ {p}, Call("free", p, 0, NULL, res.path))
         IN  returned(custom_free(mem, heap_base, is_inside_allocator, p))

CallocOf(A) ==
    /\ ~mem.fault /\ ncalls < MaxCalls
    /\ \E ns \in A, r \in Kernel(mem) :
         LET returned(res) ==
               Return(res,
                      IF res.ret # NULL THEN held \cup {res.ret} ELSE held,
                      Call("calloc", ns[1], ns[2], res.ret, res.path))
         IN  returned(custom_calloc(mem, heap_base, current_policy,
                                    is_inside_allocator, ns[1], ns[2], r, NULL))

Calloc == CallocOf(CallocArgs)

\* realloc consumes p when it returns a pointer or when size is 0; when it
\* returns NULL for size > 0 the client keeps p
Realloc(S) ==
    /\ ~mem.fault /\ ncalls < MaxCalls
    /\ \E p \in held \cup {NULL}, size \in S, r \in Kernel(mem) :
         LET returned(res) ==
               Return(res,
                      IF res.ret # NULL THEN (held \ {p}) \cup {res.ret}
                      ELSE IF size = 0 THEN held \ {p}
                      ELSE held,
                      Call("realloc", p, size, res.ret, res.path))
         IN  returned(custom_realloc(mem, heap_base, current_policy,
                                     is_inside_allocator, p, size, r, NULL))

SetPolicy ==
    /\ ~mem.fault /\ ncalls < MaxCalls
    /\ \E v \in 0..3 :
         /\ current_policy' = set_allocation_policy(v, current_policy)
         /\ call' = Call("set_policy", v, 0, NULL, "none")
    /\ ncalls' = ncalls + 1
    /\ UNCHANGED <<mem, heap_base, is_inside_allocator, held, log_fd, log_out>>

\* test-only: the list is abandoned (its mappings leak), and with it the
\* pointers the client held into it
Reset ==
    /\ ~mem.fault /\ ncalls < MaxCalls
    /\ heap_base' = reset_heap_for_testing
    /\ held' = {}
    /\ call' = Call("reset", 0, 0, NULL, "none")
    /\ ncalls' = ncalls + 1
    /\ UNCHANGED <<mem, current_policy, is_inside_allocator, log_fd, log_out>>

\* the client stores a non-zero word into a payload it owns (word k of it)
FillValue == 42405
FillWords == {0, 1}

Fill ==
    /\ ~mem.fault /\ ncalls < MaxCalls
    /\ \E p \in held, k \in FillWords :
         /\ is_valid_address(mem, heap_base, p).valid
         /\ ALIGNMENT * k < SizeOf(mem, get_block_from_ptr(p))
         /\ Rd(mem, Wrap(p + ALIGNMENT * k)) # FillValue
         /\ mem' = Wr(mem, Wrap(p + ALIGNMENT * k), FillValue)
         /\ call' = Call("fill", p, k, NULL, "none")
    /\ ncalls' = ncalls + 1
    /\ UNCHANGED <<heap_base, current_policy, is_inside_allocator, held, log_fd, log_out>>

\* a pointer the fallback allocator handed out: outside every mapping of the heap
FallbackPtr == (AddressPages + 1) * PAGE_SIZE + BLOCK_META_SIZE

\* pointers a client may wrongly pass to free: payloads of free blocks (already
\* freed), interior pointers, payloads of mappings abandoned by a reset, and a
\* pointer of the fallback allocator
StalePtrs ==
    { Wrap(b + BLOCK_META_SIZE) : b \in { c \in Blocks(mem, heap_base) : IsFree(mem, c) } }
    \cup { Wrap(q + ALIGNMENT) : q \in held }
    \cup { g * PAGE_SIZE + BLOCK_META_SIZE : g \in mem.pg }
    \cup { FallbackPtr }

\* free(p) for a pointer that is not the payload of a reachable in-use block
FreeStale ==
    /\ ~mem.fault /\ ncalls < MaxCalls
    /\ \E p \in StalePtrs :
         /\ ~is_valid_address(mem, heap_base, p).valid
         /\ LET returned(res) ==
                  Return(res, held \ {p}, Call("free", p, 0, NULL, res.path))
            IN  returned(custom_free(mem, heap_base, is_inside_allocator, p))

\* realloc(p, size) for a pointer that is not the payload of a reachable
\* in-use block
ReallocStale(S) ==
    /\ ~mem.fault /\ ncalls < MaxCalls
    /\ \E p \in StalePtrs, size \in S, r \in Kernel(mem) :
         /\ ~is_valid_address(mem, heap_base, p).valid
         /\ LET returned(res) ==
                  Return(res, held \ {p},
                         Call("realloc", p, size, res.ret, res.path))
            IN  returned(custom_realloc(mem, heap_base, current_policy,
                                        is_inside_allocator, p, size, r, NULL))

Next ==
    \/ Malloc(MallocSizes)
    \/ Free
    \/ Calloc
    \/ Realloc(ReallocSizes)
    \/ SetPolicy
    \/ Reset

Spec == Init /\ [][Next]_vars

\* the same client, asking for sizes at the top of the size_t range
NextWrap ==
    \/ Malloc({1} \cup HugeSizes)
    \/ Free
    \/ Realloc({0, 1})

SpecWrap == Init /\ [][NextWrap]_vars

\* the client of the unit tests: 32-byte blocks, realloc to 64, payloads
\* written, wrong pointers passed to free, the heap reset between tests
TestSizes == {32}
TestReallocSizes == {64}

NextTest ==
    \/ Malloc(TestSizes)
    \/ Free
    \/ FreeStale
    \/ Realloc(TestReallocSizes)
    \/ Fill
    \/ Reset

SpecTest == Init /\ [][NextTest]_vars

\* a client that writes its payloads and lets calloc and realloc reuse them
DataSizes == {1, 88}
DataReallocSizes == {1, 41}
\* a whole word, and a word plus one byte
DataCallocArgs == { <<2, 4>>, <<3, 3>> }

NextData ==
    \/ Malloc(DataSizes)
    \/ Free
    \/ CallocOf(DataCallocArgs)
    \/ Realloc(DataReallocSizes)
    \/ Fill

SpecData == Init /\ [][NextData]_vars

\* the client of test_coalescing_logic_is_correct: blocks of 100 bytes, up to
\* three of them, each in a mapping of its own, freed in any order
CoalesceSizes == {100}

NextCoalesce ==
    \/ MallocOn(CoalesceSizes, AddressPages)
    \/ Free
    \/ Reset

SpecCoalesce == Init /\ [][NextCoalesce]_vars

\* a client that passes realloc and free null, valid and wrong pointers
StaleReallocSizes == {0, 41}

NextStale ==
    \/ Malloc(MallocSizes)
    \/ Free
    \/ FreeStale
    \/ Realloc(ReallocSizes)
    \/ ReallocStale(StaleReallocSizes)

SpecStale == Init /\ [][NextStale]_vars

\* a client that builds heaps of blocks of several sizes, each in a mapping
\* of its own, under every policy; one request is so large that ALIGN wraps
PolicySizes == {16, 64, SIZE_MAX - 3}

NextPolicy ==
    \/ MallocOn(PolicySizes, AddressPages)
    \/ Free
    \/ SetPolicy

SpecPolicy == Init /\ [][NextPolicy]_vars

\* A call in progress.  An outer malloc or free has passed its guard and set
\* the flag (EnterCall); while it runs, code it calls may call malloc and free
\* again (NestedMalloc, NestedFree); then the outer call goes on from behind
\* its guard to its return (ResumeMalloc, ResumeFree).
EnterCall ==
    /\ ~mem.fault /\ ncalls < MaxCalls
    /\ ~is_inside_allocator
    /\ is_inside_allocator' = TRUE
    /\ call' = Call("enter", 0, 0, NULL, "none")
    /\ ncalls' = ncalls + 1
    /\ UNCHANGED <<mem, heap_base, current_policy, held, log_fd, log_out>>

\* what libc's malloc may return to a forwarded call
FallbackResults == {NULL, FallbackPtr}

\* malloc called while the flag is set; the record keeps the fallback's answer
NestedMalloc(S) ==
    /\ ~mem.fault /\ ncalls < MaxCalls
    /\ is_inside_allocator
    /\ \E size \in S, r \in Kernel(mem), fb \in FallbackResults :
         LET returned(res) ==
               Return(res, held, Call("nested_malloc", size, fb, res.ret, res.path))
         IN  returned(custom_malloc(mem, heap_base, current_policy,
                                    is_inside_allocator, size, r, fb))

\* free called while the flag is set
NestedFree ==
    /\ ~mem.fault /\ ncalls < MaxCalls
    /\ is_inside_allocator
    /\ \E p \in held \cup {NULL, FallbackPtr} :
         LET returned(res) ==
               Return(res, held, Call("nested_free", p, 0, NULL, res.path))
         IN  returned(custom_free(mem, heap_base, is_inside_allocator, p))

\* the outer malloc runs from behind its guard to its return
ResumeMalloc(S) ==
    /\ ~mem.fault /\ ncalls < MaxCalls
    /\ is_inside_allocator
    /\ \E size \in S, r \in Kernel(mem) :
         LET returned(res) ==
               Return(res,
                      IF res.ret # NULL THEN held \cup {res.ret} ELSE held,
                      Call("malloc", size, 0, res.ret, res.path))
         IN  returned(custom_malloc(mem, heap_base, current_policy,
                                    FALSE, size, r, NULL))

\* the outer free runs from behind its guard to its return
ResumeFree ==
    /\ ~mem.fault /\ ncalls < MaxCalls
    /\ is_inside_allocator
    /\ \E p \in held \cup {NULL} :
         LET returned(res) ==
               Return(res, held \ {p}, Call("free", p, 0, NULL, res.path))
         IN  returned(custom_free(mem, heap_base, FALSE, p))

NextNested ==
    \/ EnterCall
    \/ NestedMalloc(MallocSizes)
    \/ NestedFree
    \/ ResumeMalloc(MallocSizes)
    \/ ResumeFree

SpecNested == Init /\ [][NextNested]_vars

(***************************************************************************)
(* Vocabulary of the claims.                                               *)
(***************************************************************************)
\* the blocks reachable from heap_base
Reachable == Blocks(mem, heap_base)

\* contiguous(a, b): address(a) + HEADER_SIZE + a.size == address(b)
Contiguous(M, a, b) == Wrap(a + BLOCK_META_SIZE + SizeOf(M, a)) = b

\* the payload size recorded in the header in front of user pointer p
PayloadSize(p) == SizeOf(mem, get_block_from_ptr(p))

\* the reachable in-use blocks whose payload address is p
Owners(p) == { b \in Reachable : ~IsFree(mem, b) /\ Wrap(b + BLOCK_META_SIZE) = p }

\* n rounded up to the alignment unit, as a number (no wrap-around)
AlignUp(n) == ((n + (ALIGNMENT - 1)) \div ALIGNMENT) * ALIGNMENT

\* C1: the payloads of two distinct held pointers are disjoint, and no held
\* payload lies inside the extent (header plus payload) of a reachable free block.
C1_PayloadsExclusive ==
    /\ \A p, q \in held :
         p # q => (p + PayloadSize(p) <= q \/ q + PayloadSize(q) <= p)
    /\ \A p \in held : \A b \in Reachable :
         IsFree(mem, b) =>
           ~(b <= p /\ p + PayloadSize(p) <= b + BLOCK_META_SIZE + SizeOf(mem, b))

\* C2: every held pointer is the payload address of exactly one reachable
\* in-use block, so is_valid_address accepts it.
C2_HeldPointersValid ==
    \A p \in held :
      /\ Cardinality(Owners(p)) = 1
      /\ is_valid_address(mem, heap_base, p).valid

\* C3: between public calls no two list-adjacent blocks are both free and
\* physically contiguous.
C3_NoAdjacentFreeContiguous ==
    \A b \in Reachable :
      LET n == NextOf(mem, b) IN
      ~(n # NULL /\ IsFree(mem, b) /\ IsFree(mem, n) /\ Contiguous(mem, b, n))

\* C5: the list is a well-formed doubly-linked list and heap_base has no
\* predecessor.
C5_ListWellFormed ==
    /\ \A b \in Reachable :
         /\ NextOf(mem, b) = NULL \/ PrevOf(mem, NextOf(mem, b)) = b
         /\ PrevOf(mem, b) = NULL \/ NextOf(mem, PrevOf(mem, b)) = b
    /\ heap_base # NULL => PrevOf(mem, heap_base) = NULL

\* C6: every user pointer handed out is a multiple of 8 and every reachable
\* header records a payload size that is a multiple of 8.
C6_Aligned ==
    /\ \A p \in held : p % ALIGNMENT = 0
    /\ call.ret % ALIGNMENT = 0
    /\ \A b \in Reachable : SizeOf(mem, b) % ALIGNMENT = 0

\* C7: the size of every reachable block is a positive multiple of 8, for
\* requests over the whole size_t range.
C7_SizePositive ==
    \A b \in Reachable :
      SizeOf(mem, b) > 0 /\ SizeOf(mem, b) % ALIGNMENT = 0

\* C8: a non-null pointer returned by alloc(n) is the payload of a reachable
\* in-use block of size >= align_up(n).
C8_AllocSize ==
    (call.op = "malloc" /\ call.ret # NULL) =>
      \E b \in Reachable :
        /\ Wrap(b + BLOCK_META_SIZE) = call.ret
        /\ ~IsFree(mem, b)
        /\ SizeOf(mem, b) >= AlignUp(call.a)

C9_ZeroSizeReturnsNull ==
    [][ ( \/ call'.op = "malloc" /\ call'.a = 0
          \/ call'.op = "calloc" /\ call'.a * call'.b = 0 )
        => /\ call'.ret = NULL
           /\ heap_base' = heap_base
           /\ mem' = mem ]_vars

\* calloc with a zero product has returned null on a heap that has blocks,
\* one of them held by the client
C9_Witness ==
    /\ call.op = "calloc" /\ call.a * call.b = 0 /\ call.ret = NULL
    /\ heap_base # NULL /\ held # {}

\* C10: calloc(n, s) returns null and leaves the heap unchanged whenever the
\* product n * s does not fit in size_t, and never takes that exit when it fits.
C10_CallocOverflow ==
    [][ call'.op = "calloc" =>
          IF call'.a * call'.b > SIZE_MAX
          THEN /\ call'.ret = NULL
               /\ call'.path = "overflow"
               /\ heap_base' = heap_base
               /\ mem' = mem
          ELSE call'.path # "overflow" ]_vars

\* calloc has refused a product that does not fit, on a heap that has blocks
C10_Witness ==
    /\ call.op = "calloc" /\ call.a * call.b > SIZE_MAX
    /\ call.ret = NULL /\ call.path = "overflow"
    /\ heap_base # NULL /\ held # {}

\* the n bytes at p are all zero (little endian: a word's low bytes come first)
ZeroBytes(M, p, n) ==
    \A i \in 0 .. ((n + ALIGNMENT - 1) \div ALIGNMENT) - 1 :
      LET v == Rd(M, Wrap(p + ALIGNMENT * i)) IN
      IF ALIGNMENT * (i + 1) <= n THEN v = 0
      ELSE v % (256 ^ (n - ALIGNMENT * i)) = 0

\* C11: when calloc(n, s) has returned a non-null pointer p, the first n * s
\* bytes at p are zero, also in a reused or split block.
C11_CallocZeroed ==
    (call.op = "calloc" /\ call.ret # NULL) =>
      ZeroBytes(mem, call.ret, call.a * call.b)

\* calloc has been served the front part of a free block it split: the block
\* is followed by the free, contiguous remainder
C11_Witness ==
    /\ call.op = "calloc" /\ call.path = "reuse" /\ call.ret # NULL
    /\ call.a * call.b = 9
    /\ LET b == get_block_from_ptr(call.ret) IN
       /\ NextOf(mem, b) # NULL
       /\ IsFree(mem, NextOf(mem, b))
       /\ Contiguous(mem, b, NextOf(mem, b))

PayloadsAfter == { Wrap(b + BLOCK_META_SIZE) : b \in Blocks(mem', heap_base') }

\* C13: free(p) on a valid p makes is_valid_address(p) false, and an address
\* that is not valid becomes valid only as the pointer returned by that very
\* alloc, calloc or realloc call; no other step makes it valid again.
C13_FreedStaysInvalid ==
    [][ /\ (call'.op = "free" /\ call'.path = "freed")
           => ~is_valid_address(mem', heap_base', call'.a).valid
        /\ \A p \in PayloadsAfter :
             ( /\ ~is_valid_address(mem, heap_base, p).valid
               /\ is_valid_address(mem', heap_base', p).valid )
             => ( /\ call'.op \in {"malloc", "calloc", "realloc"}
                  /\ call'.ret = p ) ]_vars

\* a realloc of another block has grown it in place while a freed pointer's
\* block is reachable and free: the freed pointer is still not valid
C13_Witness ==
    /\ call.op = "realloc" /\ call.path = "in_place"
    /\ \E b \in Reachable :
         /\ IsFree(mem, b)
         /\ Wrap(b + BLOCK_META_SIZE) # call.ret
         /\ ~is_valid_address(mem, heap_base, Wrap(b + BLOCK_META_SIZE)).valid

\* the block in front of the pointer a realloc was called with
ReallocBlock == get_block_from_ptr(call'.a)

\* realloc was called with a valid pointer and a size its block cannot hold
GrowthRequest ==
    /\ call'.op = "realloc" /\ call'.a # NULL /\ call'.b > 0
    /\ is_valid_address(mem, heap_base, call'.a).valid
    /\ AlignUp(call'.b) > SizeOf(mem, ReallocBlock)

\* b.next exists, is free, is physically contiguous with b, and together
\* they cover the request
CanMergeForward ==
    LET b == ReallocBlock
        n == NextOf(mem, b)
    IN  /\ n # NULL
        /\ IsFree(mem, n)
        /\ Contiguous(mem, b, n)
        /\ SizeOf(mem, b) + BLOCK_META_SIZE + SizeOf(mem, n) >= AlignUp(call'.b)

\* C14: a growing realloc on a valid pointer returns p itself if and only if
\* b.next is free, physically contiguous with b and large enough; with a free
\* but non-contiguous b.next it moves the block.
C14_InPlaceIffContiguous ==
    [][ GrowthRequest => (call'.ret = call'.a <=> CanMergeForward) ]_vars

\* C15: a non-null pointer returned by realloc(p, size) with size > 0 is the
\* payload address of a reachable in-use block of size >= align_up(size).
C15_ReallocResult ==
    (call.op = "realloc" /\ call.b > 0 /\ call.ret # NULL) =>
      \E b \in Reachable :
        /\ Wrap(b + BLOCK_META_SIZE) = call.ret
        /\ ~IsFree(mem, b)
        /\ SizeOf(mem, b) >= AlignUp(call.b)

\* C16: when realloc has to move the block and the allocation fails, it
\* returns null and leaves everything as it was: the block reachable, in use,
\* of the same size, p still valid, the rest of the heap unchanged.
C16_ReallocFailureKeepsBlock ==
    [][ (call'.op = "realloc" /\ call'.path = "move_failed")
        => /\ call'.ret = NULL
           /\ is_valid_address(mem, heap_base, call'.a).valid
           /\ is_valid_address(mem', heap_base', call'.a).valid
           /\ mem' = mem
           /\ heap_base' = heap_base
           /\ held' = held ]_vars

\* the kernel refused the mapping a moving realloc needed; the client still
\* holds p and its block is still in use
C16_Witness ==
    /\ call.op = "realloc" /\ call.path = "move_failed" /\ call.ret = NULL
    /\ call.a \in held
    /\ Owners(call.a) # {}
    /\ SizeOf(mem, get_block_from_ptr(call.a)) < AlignUp(call.b)

\* the n bytes at a in M1 equal the n bytes at b in M2 (little endian)
SameBytes(M1, a, M2, b, n) ==
    \A i \in 0 .. ((n + ALIGNMENT - 1) \div ALIGNMENT) - 1 :
      LET v == Rd(M1, Wrap(a + ALIGNMENT * i))
          w == Rd(M2, Wrap(b + ALIGNMENT * i))
      IN  IF ALIGNMENT * (i + 1) <= n THEN v = w
          ELSE v % (256 ^ (n - ALIGNMENT * i)) = w % (256 ^ (n - ALIGNMENT * i))

Min(a, b) == IF a <= b THEN a ELSE b

ShrinkRequest ==
    /\ call'.op = "realloc" /\ call'.a # NULL /\ call'.b > 0
    /\ is_valid_address(mem, heap_base, call'.a).valid
    /\ AlignUp(call'.b) <= SizeOf(mem, ReallocBlock)

\* in-use block c is the same before and after the step: reachable, in use,
\* of the same size and with the same payload bytes
BlockUntouched(c) ==
    /\ c \in Blocks(mem', heap_base')
    /\ ~IsFree(mem', c)
    /\ SizeOf(mem', c) = SizeOf(mem, c)
    /\ SameBytes(mem, Wrap(c + BLOCK_META_SIZE), mem', Wrap(c + BLOCK_META_SIZE),
                 SizeOf(mem, c))

FreedOrMerged(b) ==
    \E c \in Blocks(mem', heap_base') :
      /\ IsFree(mem', c)
      /\ c <= b
      /\ b + BLOCK_META_SIZE + SizeOf(mem, b) <= c + BLOCK_META_SIZE + SizeOf(mem', c)

TwoBlocksSecondFreed ==
    LET c == Chain(mem, heap_base) IN
    /\ Len(c) = 2
    /\ c[1] % PAGE_SIZE = 0 /\ c[2] % PAGE_SIZE = 0
    /\ SizeOf(mem, c[1]) = 32 /\ SizeOf(mem, c[2]) = 32
    /\ ~IsFree(mem, c[1]) /\ IsFree(mem, c[2])
    /\ Rd(mem, Wrap(c[1] + BLOCK_META_SIZE)) = FillValue

\* C20: on a freshly reset heap, after p1 = malloc(32) and p2 = malloc(32),
\* each served by its own extension, and free(p2), realloc(p1, 64) returns p1
\* and the bytes written at p1 are still there.
C20_ExpansionReturnsSamePointer ==
    [][ ( /\ TwoBlocksSecondFreed
          /\ call'.op = "realloc" /\ call'.b = 64
          /\ call'.a = Wrap(heap_base + BLOCK_META_SIZE) )
        => /\ call'.ret = call'.a
           /\ SameBytes(mem, call'.a, mem', call'.ret, 32) ]_vars

\* the realloc of the test has returned p1, with the written word in place
C20_Witness ==
    /\ call.op = "realloc" /\ call.b = 64 /\ call.path = "in_place"
    /\ call.ret = call.a
    /\ call.a = Wrap(heap_base + BLOCK_META_SIZE)
    /\ call.a \in held
    /\ Rd(mem, call.ret) = FillValue
    /\ Len(Chain(mem, heap_base)) = 2
    /\ IsFree(mem, NextOf(mem, heap_base))

\* the i-th block of the list, and the number of blocks
Nth(i) == Chain(mem, heap_base)[i]
NBlocks == Len(Chain(mem, heap_base))

\* the heap after three allocations of 100 bytes on a reset heap: three
\* blocks b1, b2, b3 of align_up(100) bytes
ThreeBlocks ==
    /\ NBlocks = 3
    /\ \A i \in 1..3 : SizeOf(mem, Nth(i)) = AlignUp(100)

\* the pointer freed by the step is the payload of the i-th block of the list
FreesBlock(i) ==
    /\ call'.op = "free"
    /\ call'.a = Wrap(Nth(i) + BLOCK_META_SIZE)

\* C21: after p1, p2, p3 = malloc(100) on a reset heap, memory_usage_stats
\* reports one free block after free(p2), one after free(p1) and one after
\* free(p3): a freed block merges with a list neighbour that is already free.
C21_CoalescingCascade ==
    [][ /\ ( /\ ThreeBlocks
             /\ \A i \in 1..3 : ~IsFree(mem, Nth(i))
             /\ FreesBlock(2) )
           => memory_usage_stats(mem', heap_base').free_blocks = 1
        /\ ( /\ ThreeBlocks
             /\ ~IsFree(mem, Nth(1)) /\ IsFree(mem, Nth(2)) /\ ~IsFree(mem, Nth(3))
             /\ FreesBlock(1) )
           => memory_usage_stats(mem', heap_base').free_blocks = 1
        /\ ( /\ \/ ThreeBlocks
                \/ /\ NBlocks = 2
                   /\ SizeOf(mem, Nth(1)) = 2 * AlignUp(100) + BLOCK_META_SIZE
                   /\ SizeOf(mem, Nth(2)) = AlignUp(100)
             /\ \A i \in 1..NBlocks : IsFree(mem, Nth(i)) <=> i < NBlocks
             /\ FreesBlock(NBlocks) )
           => memory_usage_stats(mem', heap_base').free_blocks = 1 ]_vars

\* the step has the result and the heap effect of custom_malloc(size) for one
\* of the answers the kernel can give
SameAsMalloc(size) ==
    \E r \in Kernel(mem) :
      LET same(m) == /\ mem' = m.M
                     /\ heap_base' = m.base
                     /\ is_inside_allocator' = m.inside
                     /\ call'.ret = m.ret
                     /\ call'.path = m.path
      IN  same(custom_malloc(mem, heap_base, current_policy,
                             is_inside_allocator, size, r, NULL))

\* the step has the heap effect of custom_free(p)
SameAsFree(p) ==
    LET same(f) == /\ mem' = f.M
                   /\ heap_base' = f.base
                   /\ is_inside_allocator' = f.inside
    IN  same(custom_free(mem, heap_base, is_inside_allocator, p))

\* C22: realloc(null, size) has the result and the heap effect of
\* alloc(size); realloc(p, 0) with p non-null has the heap effect of free(p)
\* and returns null, for valid and for invalid p: an invalid p changes nothing,
\* a valid p is no longer valid.
C22_ReallocDegenerateCases ==
    [][ call'.op = "realloc"
        => /\ call'.a = NULL => SameAsMalloc(call'.b)
           /\ (call'.a # NULL /\ call'.b = 0)
              => /\ call'.ret = NULL
                 /\ SameAsFree(call'.a)
                 /\ IF is_valid_address(mem, heap_base, call'.a).valid
                    THEN ~is_valid_address(mem', heap_base', call'.a).valid
                    ELSE mem' = mem ]_vars

\* realloc(null, size) has allocated by reusing a free block
C22_Witness ==
    /\ call.op = "realloc" /\ call.a = NULL /\ call.b > 0
    /\ call.ret # NULL /\ call.path = "reuse"
    /\ call.ret \in held

\* the payload addresses of the reachable in-use blocks
InUsePayloads ==
    { Wrap(b + BLOCK_META_SIZE) : b \in { c \in Reachable : ~IsFree(mem, c) } }

\* C23: realloc(p, size) with size > 0 and p (non-null) not the payload
\* address of a reachable in-use block returns null and leaves heap_base and
\* every block's size, links and free flag unchanged.
C23_ReallocInvalidIsNoOp ==
    [][ ( /\ call'.op = "realloc" /\ call'.b > 0
          /\ call'.a # NULL /\ call'.a \notin InUsePayloads )
        => /\ call'.ret = NULL
           /\ heap_base' = heap_base
           /\ Chain(mem', heap_base') = Chain(mem, heap_base)
           /\ \A b \in Reachable :
                /\ SizeOf(mem', b) = SizeOf(mem, b)
                /\ NextOf(mem', b) = NextOf(mem, b)
                /\ PrevOf(mem', b) = PrevOf(mem, b)
                /\ IsFree(mem', b) = IsFree(mem, b) ]_vars

\* realloc has been refused a pointer to a block that was freed before,
\* while the heap holds an in-use block
C23_Witness ==
    /\ call.op = "realloc" /\ call.b > 0 /\ call.path = "invalid"
    /\ call.ret = NULL
    /\ get_block_from_ptr(call.a) \in Reachable
    /\ IsFree(mem, get_block_from_ptr(call.a))
    /\ held # {}

\* sizes find_free_block is asked for
FindRequests == {0, 8, 16, 24, 32, 64, 72}

\* positions in list order of the free blocks of size >= r
Fitting(r) == { i \in 1..NBlocks : IsFree(mem, Nth(i)) /\ SizeOf(mem, Nth(i)) >= r }

\* the earliest position of a set of positions
Earliest(I) == CHOOSE i \in I : \A j \in I : i <= j

\* what find_free_block returns under the given policy in the present heap
Found(policy, r) == find_free_block(mem, heap_base, policy, heap_base, r)

\* C24: under FIRST_FIT find_free_block(r) returns the first block in list
\* order that is free and has size >= r, and null exactly when no reachable
\* free block has size >= r.
C24_FirstFit ==
    (~mem.fault /\ ChainOk(mem, heap_base)) =>
      \A r \in FindRequests :
        /\ ~Found(FIRST_FIT, r).M.fault
        /\ Found(FIRST_FIT, r).block =
             IF Fitting(r) = {} THEN NULL ELSE Nth(Earliest(Fitting(r)))

\* under FIRST_FIT the search has a choice and takes the earlier block where
\* best-fit takes a later one
C24_Witness ==
    /\ current_policy = FIRST_FIT /\ ~mem.fault /\ ChainOk(mem, heap_base)
    /\ \E r \in FindRequests :
         /\ Cardinality(Fitting(r)) >= 2
         /\ Found(FIRST_FIT, r).block = Nth(Earliest(Fitting(r)))
         /\ Found(FIRST_FIT, r).block # Found(BEST_FIT, r).block

\* the fitting positions whose block is no larger than any other fitting block
Smallest(r) ==
    { i \in Fitting(r) : \A j \in Fitting(r) : SizeOf(mem, Nth(i)) <= SizeOf(mem, Nth(j)) }

\* the fitting positions whose block is no smaller than any other fitting block
Largest(r) ==
    { i \in Fitting(r) : \A j \in Fitting(r) : SizeOf(mem, Nth(i)) >= SizeOf(mem, Nth(j)) }

\* C25: under BEST_FIT find_free_block(r) returns a free block of size >= r of
\* minimal size, the earliest in list order among those of that size (also
\* on the early return for a perfect fit), and null exactly when no reachable
\* free block has size >= r.
C25_BestFit ==
    (~mem.fault /\ ChainOk(mem, heap_base)) =>
      \A r \in FindRequests :
        /\ ~Found(BEST_FIT, r).M.fault
        /\ Found(BEST_FIT, r).block =
             IF Fitting(r) = {} THEN NULL ELSE Nth(Earliest(Smallest(r)))

\* under BEST_FIT the search passes over an earlier, larger free block and
\* returns a later one that is no perfect fit
C25_Witness ==
    /\ current_policy = BEST_FIT /\ ~mem.fault /\ ChainOk(mem, heap_base)
    /\ \E r \in FindRequests :
         /\ Cardinality(Fitting(r)) >= 2
         /\ Found(BEST_FIT, r).block # NULL
         /\ Found(BEST_FIT, r).block # Nth(Earliest(Fitting(r)))
         /\ SizeOf(mem, Found(BEST_FIT, r).block) > r

\* C26: under WORST_FIT find_free_block(r) returns a free block of size >= r
\* of maximal size, the earliest in list order among those of that size, and
\* null exactly when no reachable free block has size >= r.
C26_WorstFit ==
    (~mem.fault /\ ChainOk(mem, heap_base) /\ current_policy = WORST_FIT) =>
      \A r \in FindRequests :
        /\ ~Found(current_policy, r).M.fault
        /\ Found(current_policy, r).block =
             IF Fitting(r) = {} THEN NULL ELSE Nth(Earliest(Largest(r)))

\* the malloc step called mmap
AsksMapping ==
    /\ call'.op = "malloc"
    /\ call'.path \in {"first", "extend", "mmap_failed"}

\* C27: under every policy alloc(n) requests a new mapping only when no
\* reachable free block has size >= align_up(n); and a successful alloc(n)
\* that follows free(p) of a block of payload size S >= align_up(n) at once
\* reuses heap memory and maps nothing.
C27_ExtendOnlyWithoutFit ==
    [][ /\ AsksMapping => Fitting(AlignUp(call'.a)) = {}
        /\ ( /\ call.op = "free" /\ call.path = "freed"
             /\ call'.op = "malloc" /\ call'.ret # NULL
             /\ AlignUp(call'.a) <= SizeOf(mem, get_block_from_ptr(call.a)) )
           => /\ call'.path = "reuse"
              /\ mem'.pg = mem.pg ]_vars

\* under a policy other than FIRST_FIT malloc has mapped new memory while the
\* heap held a free block, too small for the request
C27_Witness ==
    /\ call.op = "malloc" /\ call.path = "extend" /\ call.ret # NULL
    /\ current_policy # FIRST_FIT
    /\ \E i \in 1..NBlocks :
         /\ IsFree(mem, Nth(i))
         /\ SizeOf(mem, Nth(i)) > 0
         /\ SizeOf(mem, Nth(i)) < AlignUp(call.a)

\* C28: the recursion flag is false whenever no alloc or free call is in
\* progress: every top-level call clears it on every return path, and no
\* top-level call is forwarded to the fallback or dropped as nested.
C28_FlagClearBetweenCalls ==
    /\ is_inside_allocator = FALSE
    /\ call.path \notin {"fallback", "nested"}

\* free has returned through its exit for an invalid pointer, with the heap
\* in place
C28_Witness ==
    /\ call.op = "free" /\ call.path = "invalid"
    /\ is_inside_allocator = FALSE
    /\ heap_base # NULL

\* C29: with the flag already set on entry, alloc returns the fallback
\* allocator's result and free returns at once; heap_base, every block and
\* the flag are left as they were.
C29_NestedCallsLeaveHeap ==
    [][ (call'.op \in {"nested_malloc", "nested_free"})
        => /\ call'.op = "nested_malloc" => call'.ret = call'.b
           /\ mem' = mem
           /\ heap_base' = heap_base
           /\ current_policy' = current_policy
           /\ is_inside_allocator' = is_inside_allocator
           /\ is_inside_allocator' = TRUE ]_vars

\* a nested malloc has been answered by the fallback allocator while the
\* heap held a free block that would have served it
C29_Witness ==
    /\ call.op = "nested_malloc" /\ call.a > 0
    /\ call.ret = FallbackPtr
    /\ is_inside_allocator
    /\ \E b \in Reachable : IsFree(mem, b) /\ SizeOf(mem, b) >= AlignUp(call.a)

\* C30: the policy is FIRST_FIT initially; set_allocation_policy(v) sets it to
\* v when v is FIRST_FIT (0), BEST_FIT (1) or WORST_FIT (2) and leaves it
\* unchanged for any other value, modifying neither heap_base nor any block;
\* reset_heap_for_testing does not change the policy.
C30_PolicySetting ==
    /\ current_policy = FIRST_FIT
    /\ [][ /\ call'.op = "set_policy"
              => /\ current_policy' = IF call'.a \in {0, 1, 2} THEN call'.a
                                      ELSE current_policy
                 /\ mem' = mem
                 /\ heap_base' = heap_base
           /\ call'.op = "reset" => current_policy' = current_policy ]_vars

\* an out-of-range value has been rejected: the policy set before is still in
\* force, the heap in place
C30_Witness ==
    /\ call.op = "set_policy" /\ call.a \notin {0, 1, 2}
    /\ current_policy = WORST_FIT
    /\ heap_base # NULL

\* the pointers handed out before the step and not freed since, and the
\* payload addresses of all blocks of the list before the step
PointersBefore ==
    held \cup { Wrap(b + BLOCK_META_SIZE) : b \in Reachable }

\* free(p) and realloc(p, size) in the state after the step are rejected and
\* change nothing
RejectedAfter(p) ==
    /\ ~is_valid_address(mem', heap_base', p).valid
    /\ custom_free(mem', heap_base', FALSE, p).M = mem'
    /\ custom_free(mem', heap_base', FALSE, p).base = heap_base'
    /\ \A size \in ReallocSizes \ {0} :
         /\ custom_realloc(mem', heap_base', current_policy', FALSE, p, size, 0, NULL).ret = NULL
         /\ custom_realloc(mem', heap_base', current_policy', FALSE, p, size, 0, NULL).path = "invalid"
         /\ custom_realloc(mem', heap_base', current_policy', FALSE, p, size, 0, NULL).M = mem'

\* C31: after reset_heap_for_testing heap_base is null, memory_usage_stats
\* reports 0 bytes and 0 blocks in both classes, every pointer returned
\* before is invalid (free and realloc on it are rejected and change
\* nothing), and the next successful alloc creates a head block with
\* prev == null and next == null.
C31_ResetAbandonsList ==
    [][ /\ call'.op = "reset"
           => /\ heap_base' = NULL
              /\ memory_usage_stats(mem', heap_base').total_allocated = 0
              /\ memory_usage_stats(mem', heap_base').total_free = 0
              /\ memory_usage_stats(mem', heap_base').allocated_blocks = 0
              /\ memory_usage_stats(mem', heap_base').free_blocks = 0
              /\ \A p \in PointersBefore : RejectedAfter(p)
        /\ ( /\ call.op = "reset"
             /\ call'.op \in {"malloc", "calloc", "realloc"}
             /\ call'.ret # NULL )
           => /\ heap_base' = get_block_from_ptr(call'.ret)
              /\ NextOf(mem', heap_base') = NULL
              /\ PrevOf(mem', heap_base') = NULL
              /\ ~IsFree(mem', heap_base')
              /\ Chain(mem', heap_base') = << heap_base' >> ]_vars

\* after a reset that abandoned a list with a block in use, the next alloc
\* has made a new head in a second mapping
C31_Witness ==
    /\ call.op = "malloc" /\ call.path = "first" /\ call.ret # NULL
    /\ Cardinality(mem.pg) = 2
    /\ \E g \in mem.pg :
         /\ g * PAGE_SIZE # heap_base
         /\ SizeOf(mem, g * PAGE_SIZE) > 0
         /\ ~IsFree(mem, g * PAGE_SIZE)
    /\ Chain(mem, heap_base) = << heap_base >>

\* the sum of the sizes of a set of blocks
RECURSIVE SumOfSizes(_)
SumOfSizes(B) ==
    IF B = {} THEN 0
    ELSE LET b == CHOOSE x \in B : TRUE
         IN  SizeOf(mem, b) + SumOfSizes(B \ {b})

InUseBlocks == { b \in Reachable : ~IsFree(mem, b) }
FreeBlocks == { b \in Reachable : IsFree(mem, b) }

\* what memory_usage_stats reports in the present state
Stats == memory_usage_stats(mem, heap_base)

\* C32: memory_usage_stats returns the number of reachable in-use blocks, the
\* number of reachable free blocks, the sum of size over the in-use blocks
\* and the sum of size over the free blocks, headers counted in neither; the
\* two counts add up to the number of reachable blocks.
C32_UsageStats ==
    (~mem.fault /\ ChainOk(mem, heap_base)) =>
      /\ ~Stats.M.fault
      /\ Stats.allocated_blocks = Cardinality(InUseBlocks)
      /\ Stats.free_blocks = Cardinality(FreeBlocks)
      /\ Stats.total_allocated = SumOfSizes(InUseBlocks)
      /\ Stats.total_free = SumOfSizes(FreeBlocks)
      /\ Stats.allocated_blocks + Stats.free_blocks = NBlocks

\* pointers is_valid_address is asked about: null, the held ones, the payload
\* addresses of the list, interior pointers and payloads of mapped pages
ProbePtrs == {NULL} \cup held \cup StalePtrs \cup { Wrap(b + BLOCK_META_SIZE) : b \in Reachable }

\* memory M holds the words and the mappings of the present state
SameStore(M) == M.w = mem.w /\ M.pg = mem.pg

\* C33: memory_usage_stats, get_fragmentation_rate, check_heap_consistency
\* and is_valid_address leave heap_base, the policy, the recursion flag and
\* every block's size, links and free flag unchanged, in every reachable state.
C33_IntrospectionReadsOnly ==
    ~mem.fault =>
      /\ SameStore(memory_usage_stats(mem, heap_base).M)
      /\ SameStore(get_fragmentation_rate(mem, heap_base).M)
      /\ SameStore(check_heap_consistency(mem, heap_base).M)
      /\ \A p \in ProbePtrs : SameStore(is_valid_address(mem, heap_base, p).M)

\* a heap on which the four operations have something to report: blocks of
\* both classes, a non-zero fragmentation rate, a valid held pointer
C33_Witness ==
    /\ ~mem.fault
    /\ Stats.allocated_blocks >= 1 /\ Stats.free_blocks >= 2
    /\ get_fragmentation_rate(mem, heap_base).num > 0
    /\ \E p \in held : is_valid_address(mem, heap_base, p).valid

\* sizes split_block is asked to cut a block to: what ALIGN yields for the
\* requests of the clients
SplitRequests == { ALIGN(n) : n \in MallocSizes \cup ReallocSizes \cup HugeSizes } \ {0}

\* the blocks of the list of memory M, in list order
ChainOf(M) == Chain(M, heap_base)

\* split_block(b, r) has cut b to r bytes and linked a free block of the rest
\* between b and its old successor
SplitDone(M, b, r) ==
    LET f == b + BLOCK_META_SIZE + r IN
    /\ ~M.fault
    /\ SizeOf(M, b) = r
    /\ NextOf(M, b) = f
    /\ IsFree(M, f)
    /\ SizeOf(M, f) = SizeOf(mem, b) - r - BLOCK_META_SIZE
    /\ PrevOf(M, f) = b
    /\ NextOf(M, f) = NextOf(mem, b)
    /\ (NextOf(mem, b) # NULL => PrevOf(M, NextOf(mem, b)) = f)
    /\ IsFree(M, b) = IsFree(mem, b)
    /\ Len(ChainOf(M)) = NBlocks + 1
    /\ f + BLOCK_META_SIZE + SizeOf(M, f) = b + BLOCK_META_SIZE + SizeOf(mem, b)

\* C34: split(b, r) with b.size >= r splits if and only if
\* b.size >= r + HEADER_SIZE + 8; when it splits, b.size becomes r and a free
\* block of size (old b.size - r - HEADER_SIZE) is linked between b and b's
\* old successor at address(b) + HEADER_SIZE + r, the list grows by one block
\* and covers the same bytes; when it does not split, nothing changes.
C34_SplitRule ==
    (~mem.fault /\ ChainOk(mem, heap_base)) =>
      \A b \in Reachable : \A r \in SplitRequests :
        SizeOf(mem, b) >= r =>
          IF SizeOf(mem, b) >= r + BLOCK_META_SIZE + ALIGNMENT
          THEN SplitDone(split_block(mem, b, r), b, r)
          ELSE split_block(mem, b, r) = mem

\* the blocks a call removed from the list
Absorbed == Reachable \ Blocks(mem', heap_base')

\* block c has no list neighbour that is free and physically contiguous
NoFreeContiguousNeighbour(M, c) ==
    /\ ~( /\ PrevOf(M, c) # NULL /\ IsFree(M, PrevOf(M, c))
          /\ Contiguous(M, PrevOf(M, c), c) )
    /\ ~( /\ NextOf(M, c) # NULL /\ IsFree(M, NextOf(M, c))
          /\ Contiguous(M, c, NextOf(M, c)) )

\* C35: free(p) on a valid p leaves a free block that contains the freed
\* payload and has no free, contiguous list predecessor or successor; its size
\* is its old size plus the size and HEADER_SIZE of every absorbed block; and
\* every other in-use block stays reachable and in use with its size.
C35_FreeMergesBothWays ==
    [][ (call'.op = "free" /\ call'.path = "freed" /\ ~mem'.fault) =>
          /\ \E c \in Blocks(mem', heap_base') :
               /\ IsFree(mem', c)
               /\ c <= get_block_from_ptr(call'.a)
               /\ call'.a + PayloadSize(call'.a)
                    <= c + BLOCK_META_SIZE + SizeOf(mem', c)
               /\ NoFreeContiguousNeighbour(mem', c)
               /\ SizeOf(mem', c) = SizeOf(mem, c) + SumOfSizes(Absorbed)
                                      + BLOCK_META_SIZE * Cardinality(Absorbed)
          /\ \A u \in InUseBlocks \ {get_block_from_ptr(call'.a)} :
               /\ u \in Blocks(mem', heap_base')
               /\ ~IsFree(mem', u)
               /\ SizeOf(mem', u) = SizeOf(mem, u)
      ]_vars

\* the block whose next is null, or NULL on the empty list
TailBlock == IF NBlocks = 0 THEN NULL ELSE Nth(NBlocks)

\* the malloc step created a block by extension
Extends ==
    /\ call'.op = "malloc"
    /\ call'.path \in {"first", "extend"}
    /\ ~mem'.fault

\* find_free_block misses for request r and records the tail as last
MissRecordsTail(r) ==
    LET found(f) == (f.block = NULL /\ ~f.M.fault) => f.last = TailBlock
    IN  found(find_free_block(mem, heap_base, current_policy, heap_base, r))

\* C36: when find_free_block misses, the last block it recorded is the tail;
\* a block created by extension is appended after the tail, in use, with
\* next == null and prev == the old tail, and every block stays reachable in
\* its place; when the mapping fails malloc returns null and the memory and
\* heap_base are as before.
C36_ExtensionAppendsAtTail ==
    [][ /\ Extends =>
             /\ heap_base # NULL => MissRecordsTail(ALIGN(call'.a))
             /\ Chain(mem', heap_base')
                  = Append(Chain(mem, heap_base), get_block_from_ptr(call'.ret))
             /\ ~IsFree(mem', get_block_from_ptr(call'.ret))
             /\ NextOf(mem', get_block_from_ptr(call'.ret)) = NULL
             /\ PrevOf(mem', get_block_from_ptr(call'.ret)) = TailBlock
        /\ (call'.op = "malloc" /\ call'.path = "mmap_failed") =>
             /\ call'.ret = NULL
             /\ mem' = mem
             /\ heap_base' = heap_base
      ]_vars

\* malloc has appended a third block while an earlier block was free
C36_Witness ==
    /\ call.op = "malloc" /\ call.path = "extend"
    /\ NBlocks = 3
    /\ call.ret = Wrap(TailBlock + BLOCK_META_SIZE)
    /\ \E i \in 1..2 : IsFree(mem, Nth(i))

\* the bytes of the pages the step mapped
MappedBytes == Cardinality(mem'.pg \ mem.pg) * PAGE_SIZE

\* C37: a block created by extension records a payload size no larger than
\* the bytes mapped for it minus the header, and a request for which
\* HEADER_SIZE + align_up(n) exceeds SIZE_MAX makes malloc return null.
C37_ExtensionSizeNeverWraps ==
    [][ /\ Extends =>
             BLOCK_META_SIZE + SizeOf(mem', get_block_from_ptr(call'.ret))
               <= MappedBytes
        /\ ( /\ call'.op = "malloc"
             /\ BLOCK_META_SIZE + AlignUp(call'.a) > SIZE_MAX )
           => call'.ret = NULL
      ]_vars

\* one past the last byte of the extent of block b, as a number (no wrap)
ExtentEnd(b) == b + BLOCK_META_SIZE + SizeOf(mem, b)

\* the extent of b lies inside one mapping; every mapping of these clients is
\* one page long
InOneMapping(b) ==
    /\ (b \div PAGE_SIZE) \in mem.pg
    /\ (ExtentEnd(b) - 1) \div PAGE_SIZE = b \div PAGE_SIZE

\* C38: the extents of the reachable blocks are pairwise disjoint and each
\* lies entirely inside a single mapping.
C38_ExtentsDisjointInMapping ==
    ~mem.fault =>
      /\ \A a, b \in Reachable :
           a # b => (ExtentEnd(a) <= b \/ ExtentEnd(b) <= a)
      /\ \A b \in Reachable : InOneMapping(b)

\* following next from b reaches null without visiting an address in seen or
\* an address visited before, reading mapped memory only
RECURSIVE ReachesNull(_, _, _)
ReachesNull(M, b, seen) ==
    IF b = NULL THEN TRUE
    ELSE IF b \in seen \/ ~Mapped(M, b) THEN FALSE
    ELSE ReachesNull(M, NextOf(M, b), seen \cup {b})

\* C39: the next-chain from heap_base reaches null without visiting a block
\* twice.
C39_ChainFiniteAcyclic ==
    ~mem.fault => ReachesNull(mem, heap_base, {})

(***************************************************************************)
(* The client of the log: it opens, closes and writes the log.             *)
(***************************************************************************)
\* lengths of formatted messages: an output error, the empty message, short
\* ones, and those around the size of the buffer
MessageLengths == {-1, 0, 1, 60, 253, 254, 255, 300}
\* const char* filename
LogFileNames == {NULL, 1}
\* what open() may return: failure, or a descriptor
OpenResults == {-1, 3}

MaxOf(S) == CHOOSE x \in S : \A y \in S : y <= x

InitLog ==
    /\ ~mem.fault /\ ncalls < MaxCalls
    /\ \E filename \in LogFileNames, opened \in OpenResults :
         /\ log_fd' = init_memory_log(log_fd, filename, opened)
         /\ log_out' = IF filename # NULL /\ opened # -1 THEN << >> ELSE log_out
         /\ call' = Call("init_memory_log", filename, 0, opened, "none")
    /\ ncalls' = ncalls + 1
    /\ UNCHANGED <<mem, heap_base, current_policy, is_inside_allocator, held>>

CloseLog ==
    /\ ~mem.fault /\ ncalls < MaxCalls
    /\ log_fd' = close_memory_log(log_fd)
    /\ call' = Call("close_memory_log", 0, 0, NULL, "none")
    /\ ncalls' = ncalls + 1
    /\ UNCHANGED <<mem, heap_base, current_policy, is_inside_allocator, held,
                   log_out>>

\* a store outside buffer is undefined: the process may die, or go on and
\* pass the bytes to write
LogEvent ==
    /\ ~mem.fault /\ ncalls < MaxCalls
    /\ \E L \in MessageLengths :
         LET logged(e) ==
               \/ /\ ~(e.stores \subseteq 0 .. (LOG_BUFFER_SIZE - 1))
                  /\ Crash
               \/ /\ log_out' = IF e.wrote THEN Append(log_out, e.count)
                                ELSE log_out
                  /\ call' = Call("log_event", L,
                                  IF e.stores = {} THEN -1 ELSE MaxOf(e.stores),
                                  e.count,
                                  IF e.wrote THEN "written" ELSE "none")
                  /\ ncalls' = ncalls + 1
                  /\ UNCHANGED <<mem, heap_base, current_policy,
                                 is_inside_allocator, held, log_fd>>
         IN  logged(log_event(log_fd, L))

NextLog == InitLog \/ CloseLog \/ LogEvent

SpecLog == Init /\ [][NextLog]_vars

\* C40: with the log enabled, log_event stores inside its 256-byte buffer only
\* and, for a non-empty message of any length, appends one record of at most
\* 254 message bytes plus one newline; with the log disabled it writes
\* nothing; the log is disabled after init_memory_log(null), a failed open and
\* close_memory_log.
C40_LogRecordBounded ==
    [][ /\ call'.op = "log_event" =>
             IF log_fd = -1
             THEN log_out' = log_out /\ call'.b = -1
             ELSE /\ call'.b <= LOG_BUFFER_SIZE - 1
                  /\ call'.a > 0 =>
                       /\ Len(log_out') = Len(log_out) + 1
                       /\ log_out'[Len(log_out')] <= (LOG_BUFFER_SIZE - 2) + 1
        /\ ( /\ call'.op = "init_memory_log"
             /\ (call'.a = NULL \/ call'.ret = -1) ) => log_fd' = -1
        /\ call'.op = "close_memory_log" => log_fd' = -1
      ]_vars

====
